---- MODULE Spec2Model ----
(***************************************************************************)
(* A model of the offline-resilient rate retrieval of the currency         *)
(* converter: CurrencyService (src/src/currency-service.ts) and the        *)
(* service worker (src/public/sw.js).                                      *)
(*                                                                         *)
(* JavaScript values: in a string-valued position `undefined` is the       *)
(* string "undefined"; in a number-valued position a number n is <<n>>     *)
(* and undefined/null is <<>>; an optional array a is <<a>> or <<>>.       *)
(***************************************************************************)
EXTENDS Integers, Sequences, FiniteSets, TLC

\* ------------------------------------------------------------------ bounds
MaxCalls == 2       \* fetchRates calls that may be outstanding at once
MaxTime == 3        \* the clock runs from 0 to MaxTime ticks
TicksPerDay == 2    \* clock ticks in one UTC calendar day
MaxAmount == 2      \* amounts converted are 0..MaxAmount
MaxWriteFailures == 1   \* localStorage writes that may fail in one run
MaxHandlers == 1    \* fetch events the service worker handles at once

Currencies == {"USD", "EUR", "GBP"}
Bases == {"USD", "EUR"}          \* the bases fetchRates is called with
Amounts == 0..MaxAmount
Calls == 1..MaxCalls
Handlers == 1..MaxHandlers

Undefined == "undefined"
None == <<>>
Num(n) == <<n>>

\* ------------------------------------------------------------ config.ts
CACHE_KEY == "currency-rates"
METADATA_KEY == "fetch-metadata"

VARIABLES
  cache,          \* CurrencyService.cache: base -> <<rates>> | <<>>
  localStorage,   \* durable storage: key -> stored item
  now,            \* the clock (ticks since the epoch, UTC)
  calls,          \* the fetchRates activations, one record per slot
  net,            \* outbound requests in flight: <<call, source>>
  lastGood,       \* base -> <<rates>> of the last fetch that returned fresh
                  \* rates with every outbound response since a network error
  writeFailures,  \* how many times setItem has thrown
  service,        \* what new CurrencyService() did: "constructed" | "threw"
  app,            \* the App component: its signals and how far setup has run
  swState,        \* the service worker's lifecycle state
  swCaches,       \* CacheStorage: cache name -> <<entries>> | <<>>
  swFetch,        \* the fetch events being handled, one record per slot
  swMessage,      \* the message event last received and how far it is handled
  apiWorker,      \* the rate API worker: env.API_KEY and the request last served
  db,             \* the D1 table exchange_rates: a set of rows
  script          \* a run of the daily rate-fetching script

\* The back end (worker, database, script) is written by neither the page
\* nor the service worker: both groups carry its variables.
backendVars == <<apiWorker, db, script>>
serviceVars ==
  <<cache, localStorage, now, calls, net, lastGood, writeFailures, service,
    app, backendVars>>
swVars == <<swState, swCaches, swFetch, swMessage, backendVars>>
vars == <<cache, localStorage, now, calls, net, lastGood, writeFailures,
          service, app, swState, swCaches, swFetch, swMessage, apiWorker, db,
          script>>

\* ------------------------------------------------------ JSON round trip
RateFields == {"base", "target", "rate", "date"}

\* JSON.stringify of one ExchangeRate: members whose value is undefined are
\* dropped, the others are written as they are.
PresentFields(e) ==
  {f \in RateFields :
     CASE f = "base" -> e.base # Undefined
       [] f = "target" -> e.target # Undefined
       [] f = "rate" -> e.rate # None
       [] f = "date" -> e.date # None}

StringifyRate(e) ==
  [f \in PresentFields(e) |->
     CASE f = "base" -> e.base
       [] f = "target" -> e.target
       [] f = "rate" -> e.rate[1]
       [] f = "date" -> e.date[1]]

\* a parse that loses the date member
ParseRateNoDate(j) ==
  [base   |-> IF "base" \in DOMAIN j THEN j["base"] ELSE Undefined,
   target |-> IF "target" \in DOMAIN j THEN j["target"] ELSE Undefined,
   rate   |-> IF "rate" \in DOMAIN j THEN Num(j["rate"]) ELSE None,
   date   |-> None]

\* JSON.parse of one member list; a member that is absent reads undefined.
ParseRate(j) ==
  [base   |-> IF "base" \in DOMAIN j THEN j["base"] ELSE Undefined,
   target |-> IF "target" \in DOMAIN j THEN j["target"] ELSE Undefined,
   rate   |-> IF "rate" \in DOMAIN j THEN Num(j["rate"]) ELSE None,
   date   |-> IF "date" \in DOMAIN j THEN Num(j["date"]) ELSE None]

\* JSON.stringify(Object.fromEntries(map.entries())): one member per key the
\* map holds.
StringifyCache(m) ==
  [b \in {x \in Currencies : m[x] # None} |->
     [i \in 1..Len(m[b][1]) |-> StringifyRate(m[b][1][i])]]

\* new Map(Object.entries(JSON.parse(text)))
ParseCache(j) ==
  [b \in Currencies |->
     IF b \in DOMAIN j
       THEN <<[i \in 1..Len(j[b]) |-> ParseRate(j[b][i])]>>
       ELSE None]

\* Date.prototype.toISOString and new Date(isoString): calendar date and
\* time of day, both UTC.
ToISOString(t) == [date |-> t \div TicksPerDay, time |-> t % TicksPerDay]
ParseDate(s) == s.date * TicksPerDay + s.time
\* Date.UTC(d.getUTCFullYear(), d.getUTCMonth(), d.getUTCDate())
UTCMidnight(t) == (t \div TicksPerDay) * TicksPerDay

\* A stored item: none, the text of a JSON value, or text that is not JSON.
NoItem == [kind |-> "none"]
Item(v) == [kind |-> "text", json |-> v]
Garbage == [kind |-> "garbage"]
\* JSON.parse(text) throws a SyntaxError
ParseThrows(item) == item.kind = "garbage"

EmptyCache == [b \in Currencies |-> None]
\* The App component before its setup has run: the signals fromCurrency,
\* toCurrency, amount, convertedAmount (null) and metadata (lastFetch <<>>
\* for "Never").
NoApp == [phase |-> "none", from |-> "GBP", to |-> "USD", amount |-> 1,
          convertedAmount |-> None,
          metadata |-> [lastFetch |-> <<>>, hasNewData |-> TRUE]]
\* One fetchRates activation.  pc: where it is suspended; via: the return
\* statement it left by; primary, fallback: how each request ended ("ok": a
\* reply that parsed, "failed": anything else); prior: what the map held for
\* base when the call began; nPrimary, nFallback: requests sent.
IdleCall == [pc |-> "idle", base |-> Undefined, result |-> <<>>, via |-> "none",
             prior |-> None, primary |-> "none", fallback |-> "none",
             nPrimary |-> 0, nFallback |-> 0]

\* ------------------------------------------------------------------ sw.js
BUILD_VERSION == "build"
CACHE_NAME == <<"currency-converter", BUILD_VERSION>>
CURRENCY_API_CACHE == <<"currency-api", BUILD_VERSION>>
\* the build that ran before this one, and the caches its worker made
PREVIOUS_VERSION == "previous"
OldCacheNames == {<<"currency-converter", PREVIOUS_VERSION>>,
                  <<"currency-api", PREVIOUS_VERSION>>}
CacheNames == {CACHE_NAME, CURRENCY_API_CACHE} \cup OldCacheNames
\* the order caches.match(request) searches the caches in: that of creation
CacheOrder == <<<<"currency-converter", PREVIOUS_VERSION>>,
                <<"currency-api", PREVIOUS_VERSION>>,
                CACHE_NAME, CURRENCY_API_CACHE>>

AppOrigin == "www.pocketfx.app"
WorkerHost == "currency-converter-worker.josephmarkus.workers.dev"
FrankfurterHost == "api.frankfurter.app"
Url(host, path) == <<host, path>>
STATIC_ASSETS == {Url(AppOrigin, "/"), Url(AppOrigin, "/index.html")}

\* The requests the page issues.
Request(host, path, destination) ==
  [url |-> Url(host, path), destination |-> destination]
Requests ==
  {Request(WorkerHost, "/api/rates?from=USD", ""),
   Request(FrankfurterHost, "/latest?from=USD", ""),
   Request(AppOrigin, "/", "document"),
   Request(AppOrigin, "/index.html", ""),
   Request(AppOrigin, "/assets/index.js", "script")}
Urls == {r.url : r \in Requests} \cup STATIC_ASSETS

\* What the network does with a request: it fails, or a response comes.
Bodies == {"body1", "body2"}
Response(status, body, offline) ==
  [status |-> status, body |-> body, offline |-> offline]
NetworkResponses ==
  {Response(200, b, FALSE) : b \in Bodies} \cup {Response(500, "error", FALSE)}
NetworkOutcomes == {<<>>} \cup {<<r>> : r \in NetworkResponses}

EmptyPartition == [u \in Urls |-> None]
\* One message event.  type: event.data.type ("undefined" when the message
\* has none); pc: "update" while updateCache() is pending; result: how the
\* promise given to event.waitUntil settled.
MessageTypes == {"CACHE_UPDATE", "undefined"}
IdleMessage == [type |-> "none", pc |-> "idle", result |-> "none"]
\* One fetch event.  pc: where its handler is suspended; network: how its
\* fetch(request) settled ("failed": it rejected, "replied": a response
\* came); held: the network response it holds; settled: whether
\* event.respondWith has settled; out: what it settled with, <<response>>
\* or <<>> for undefined.
IdleHandler == [pc |-> "idle", request |-> Request("", "", ""),
                network |-> "none", held |-> None, settled |-> FALSE,
                out |-> None]

\* ------------------------------------------------------------ responses
\* The two targets the services publish for a base.
FirstTarget(b) == IF b = "USD" THEN "EUR" ELSE "USD"
SecondTarget(b) == "GBP"
PublishedDate == Num(1)
\* the date of the publication after that one
NextPublishedDate == Num(2)

\* One row of the primary service's reply (worker.js SELECT).
Row(b, t, r, d) ==
  [base_currency |-> b, target_currency |-> t, rate |-> r, date |-> d]
\* a row with no members, and a row of another base
EmptyRow == Row(Undefined, Undefined, None, None)
ForeignRow(b) == Row(FirstTarget(b), SecondTarget(b), Num(1), PublishedDate)

\* The row lists a reply may carry: none, one or two rows of the base; the
\* same target twice with different rates; a foreign row; an empty row; rows
\* of two dates, in either order.
PrimaryLists(b) ==
  LET A == Row(b, FirstTarget(b), Num(1), PublishedDate)
      B == Row(b, FirstTarget(b), Num(2), PublishedDate)
      C == Row(b, SecondTarget(b), Num(1), PublishedDate)
      D == Row(b, SecondTarget(b), Num(1), NextPublishedDate)
  IN {<<>>, <<A>>, <<B>>, <<C>>, <<A, C>>, <<A, B>>,
      <<ForeignRow(b)>>, <<EmptyRow>>, <<A, D>>, <<D, A>>}

HttpReply(status, parses, shape, rows, date) ==
  [net |-> "reply", status |-> status, parses |-> parses, shape |-> shape,
   rows |-> rows, date |-> date]
NetworkError == [net |-> "error", status |-> 0, parses |-> FALSE,
                 shape |-> "absent", rows |-> <<>>, date |-> None]

\* What may come back for the primary request: no reply, an error status, a
\* body that is not JSON, a body with no data member, a single row, a list.
PrimaryResponses(b) ==
  {NetworkError,
   HttpReply(500, TRUE, "absent", <<>>, None),
   HttpReply(200, FALSE, "absent", <<>>, None),
   HttpReply(200, TRUE, "absent", <<>>, None),
   HttpReply(200, TRUE, "object",
             <<Row(b, FirstTarget(b), Num(1), PublishedDate)>>, None)}
    \cup {HttpReply(200, TRUE, "array", l, None) : l \in PrimaryLists(b)}

\* The fallback service's reply: { date, rates: { <CODE>: number, ... } };
\* rows holds the members of data.rates in order (the keys of an object are
\* distinct), shape "absent" is a body with no rates member.
FallbackEntries(b) ==
  {<<>>, <<<<FirstTarget(b), Num(1)>>>>, <<<<FirstTarget(b), Num(2)>>>>,
   <<<<SecondTarget(b), Num(1)>>>>,
   <<<<FirstTarget(b), Num(1)>>, <<SecondTarget(b), Num(1)>>>>}

FallbackResponses(b) ==
  {NetworkError,
   HttpReply(500, TRUE, "absent", <<>>, None),
   HttpReply(200, FALSE, "absent", <<>>, None),
   HttpReply(200, TRUE, "absent", <<>>, PublishedDate),
   HttpReply(200, TRUE, "object", <<<<FirstTarget(b), Num(1)>>>>, None)}
    \cup {HttpReply(200, TRUE, "object", l, PublishedDate) :
            l \in FallbackEntries(b)}

\* Response.ok
ResponseOk(r) == r.status >= 200 /\ r.status <= 299


\* ------------------------------------------------- CurrencyService, pure
\* getCachedRates(base): this.cache.get(base) || null, the map being m
getCachedRates(m, base) == m[base]

\* a find that compares the base of each entry, not its target
FirstWithBase(rates, target) ==
  LET hits == {i \in 1..Len(rates) : rates[i].base = target}
  IN IF hits = {} THEN 0 ELSE CHOOSE i \in hits : \A j \in hits : i <= j

\* rates.find(r => r.target === target): the index of the first match, or 0
FirstWithTarget(rates, target) ==
  LET hits == {i \in 1..Len(rates) : rates[i].target = target}
  IN IF hits = {} THEN 0 ELSE CHOOSE i \in hits : \A j \in hits : i <= j

Falsy(v) == v = None \/ v = Num(0)

\* getRate(base, target): ...find(...)?.rate || null
getRate(base, target) ==
  IF cache[base] = None THEN None
  ELSE LET rates == cache[base][1]
           i == FirstWithTarget(rates, target)
       IN IF i = 0 THEN None
          ELSE IF Falsy(rates[i].rate) THEN None ELSE rates[i].rate

\* convert without the identity short-circuit of line 114
convertThroughStore(amount, base, target) ==
  LET rate == getRate(base, target)
  IN IF rate = None THEN None ELSE Num(amount * rate[1])

\* convert without the null check of line 117: amount * null is 0
convertUnchecked(amount, base, target) ==
  IF base = target THEN Num(amount)
  ELSE LET rate == getRate(base, target)
       IN Num(amount * (IF rate = None THEN 0 ELSE rate[1]))

\* convert(amount, base, target)
convert(amount, base, target) ==
  IF base = target THEN Num(amount)
  ELSE LET rate == getRate(base, target)
       IN IF rate = None THEN None ELSE Num(amount * rate[1])

\* new Date(rate.date) > new Date(latestRate.date): the dates are calendar
\* dates, read as their midnight UTC; a missing date gives an Invalid Date,
\* which is greater than nothing and less than nothing
LaterDate(d, e) ==
  d # None /\ e # None /\ d[1] * TicksPerDay > e[1] * TicksPerDay

\* Lines 19-23: the loop over rates from index i on, latest being the index
\* of latestRate
RECURSIVE LatestFrom(_, _, _)
LatestFrom(rates, i, latest) ==
  IF i > Len(rates) THEN latest
  ELSE LatestFrom(rates, i + 1,
                  IF LaterDate(rates[i].date, rates[latest].date)
                    THEN i ELSE latest)

\* a getLatestUpdateDate that returns the date of the first entry
getFirstDate(base) ==
  IF cache[base] = None \/ cache[base][1] = <<>>
    THEN [null |-> TRUE, date |-> None]
    ELSE [null |-> FALSE, date |-> cache[base][1][1].date]

\* getLatestUpdateDate(base): null, or the date of latestRate
getLatestUpdateDate(base) ==
  IF cache[base] = None \/ cache[base][1] = <<>>
    THEN [null |-> TRUE, date |-> None]
    ELSE [null |-> FALSE,
          date |-> cache[base][1][LatestFrom(cache[base][1], 1, 1)].date]

\* a staleness test on the instants, not on their calendar days
hasNewDataByInstant(lastFetch) == ParseDate(lastFetch) # now

\* hasNewDataAvailable(lastFetch), lastFetch an ISO string
hasNewDataAvailable(lastFetch) ==
  UTCMidnight(ParseDate(lastFetch)) # UTCMidnight(now)

\* getMetadata(): lastFetch is <<isoString>>, or <<>> for "Never"; threw:
\* JSON.parse(stored) threw, which getMetadata does not catch
getMetadata ==
  LET stored == localStorage[METADATA_KEY]
  IN IF ParseThrows(stored)
       THEN [threw |-> TRUE, lastFetch |-> <<>>, hasNewData |-> FALSE]
     ELSE IF stored.kind = "text"
       THEN [threw |-> FALSE, lastFetch |-> <<stored.json.lastFetch>>,
             hasNewData |-> hasNewDataAvailable(stored.json.lastFetch)]
       ELSE [threw |-> FALSE, lastFetch |-> <<>>, hasNewData |-> TRUE]

\* ------------------------------------------------ fetchRates, its pieces
\* Lines 39-53: the primary reply turned into rates, or an exception.
ParsePrimary(r) ==
  IF r.net = "error" \/ ~ResponseOk(r) \/ ~r.parses \/ r.shape = "absent"
    THEN [threw |-> TRUE, rates |-> <<>>]
    ELSE [threw |-> FALSE,
          rates |-> [i \in 1..Len(r.rows) |->
                       [base |-> r.rows[i].base_currency,
                        target |-> r.rows[i].target_currency,
                        rate |-> r.rows[i].rate,
                        date |-> r.rows[i].date]]]

\* Lines 67-81: the fallback reply turned into rates, or an exception.
ParseFallback(base, r) ==
  IF r.net = "error" \/ ~ResponseOk(r) \/ ~r.parses \/ r.shape = "absent"
    THEN [threw |-> TRUE, rates |-> <<>>]
    ELSE [threw |-> FALSE,
          rates |-> [i \in 1..Len(r.rows) |->
                       [base |-> base, target |-> r.rows[i][1],
                        rate |-> r.rows[i][2], date |-> r.date]]]

\* saveToLocalStorage(), the map being m; setItem throws when the write fails
SavedStorage(store, m, writeOk) ==
  IF writeOk THEN [store EXCEPT ![CACHE_KEY] = Item(StringifyCache(m))] ELSE store

\* updateMetadata()
MetadataStorage(store, writeOk) ==
  IF writeOk
    THEN [store EXCEPT ![METADATA_KEY] = Item([lastFetch |-> ToISOString(now)])]
    ELSE store

\* a constructor that does not read the snapshot
loadNothing(store) == EmptyCache

\* loadFromLocalStorage() on a new instance, whose map is empty
loadFromLocalStorage(store) ==
  IF store[CACHE_KEY].kind = "text"
    THEN ParseCache(store[CACHE_KEY].json)
    ELSE EmptyCache

\* Lines 56-58 (and 84-86): cache.set, saveToLocalStorage, updateMetadata.
\* w[1], w[2]: whether the first and the second setItem succeed; the second
\* is not reached when the first throws.
\* a put that appends to the set the map holds
PutCacheMerged(base, rates) ==
  [cache EXCEPT ![base] = IF cache[base] = None THEN <<rates>>
                           ELSE <<cache[base][1] \o rates>>]

PutCache(base, rates) == [cache EXCEPT ![base] = <<rates>>]
PutStorage(base, rates, w) ==
  IF w[1]
    THEN MetadataStorage(SavedStorage(localStorage, PutCache(base, rates), TRUE),
                         w[2])
    ELSE localStorage
PutThrew(w) == ~w[1] \/ ~w[2]

\* setItem may throw (quota exceeded); the model lets it at most
\* MaxWriteFailures times in a run.
WriteOutcomes ==
  {<<TRUE, TRUE>>}
    \cup (IF writeFailures < MaxWriteFailures
            THEN {<<TRUE, FALSE>>, <<FALSE, FALSE>>} ELSE {})

\* the ghost lastGood after an outbound response of call c
GoodAfter(c, r, fresh, rates) ==
  IF r.net = "error" THEN lastGood
  ELSE [b \in Currencies |->
          IF fresh /\ b = calls[c].base THEN <<rates>> ELSE None]

\* both sources requested at once
SendBoth(c, base) ==
  /\ calls' = [calls EXCEPT ![c] =
                 [pc |-> "primary", base |-> base, result |-> <<>>,
                  via |-> "none", prior |-> cache[base],
                  primary |-> "pending", fallback |-> "pending",
                  nPrimary |-> 1, nFallback |-> 1]]
  /\ net' = net \cup {<<c, "primary">>, <<c, "fallback">>}

\* Line 35: the primary request is sent and the call suspends.
SendPrimary(c, base) ==
  /\ calls' = [calls EXCEPT ![c] =
                 [pc |-> "primary", base |-> base, result |-> <<>>,
                  via |-> "none", prior |-> cache[base],
                  primary |-> "pending", fallback |-> "none",
                  nPrimary |-> 1, nFallback |-> 0]]
  /\ net' = net \cup {<<c, "primary">>}

\* Lines 61-67: the primary step threw; the fallback request is sent.
SendFallback(c, ended) ==
  /\ calls' = [calls EXCEPT ![c].pc = "fallback", ![c].nFallback = @ + 1,
                            ![c].primary = ended, ![c].fallback = "pending"]
  /\ net' = (net \ {<<c, "primary">>}) \cup {<<c, "fallback">>}

\* Line 60 / line 88: return rates
ReturnFresh(c, source, rates) ==
  /\ calls' = [calls EXCEPT ![c].pc = "returned", ![c].result = rates,
                            ![c].via = source, ![c][source] = "ok"]
  /\ net' = net \ {<<c, source>>}

\* the fallback step's exception leaves fetchRates: the promise rejects
Rethrow(c, m, ended) ==
  /\ calls' = [calls EXCEPT ![c].pc = "rejected", ![c].fallback = ended]
  /\ net' = net \ {<<c, "fallback">>}

\* Lines 89-93: the fallback step threw; return this.getCachedRates(base) || [],
\* m being the map at that moment.
ReturnCached(c, m, ended) ==
  /\ calls' = [calls EXCEPT
                 ![c].pc = "returned",
                 ![c].fallback = ended,
                 ![c].result = IF getCachedRates(m, calls[c].base) = None
                                 THEN <<>>
                                 ELSE getCachedRates(m, calls[c].base)[1],
                 ![c].via = "cache"]
  /\ net' = net \ {<<c, "fallback">>}

\* ------------------------------------------------------ the back end
\* worker.js: env.API_KEY, and the request last served with its response;
\* route is the handler that ran, "none" when none did.
ConfiguredKey == "secret"
IdleApi(key) ==
  [env |-> key,
   request |-> [method |-> "", path |-> "", origin |-> "", key |-> ""],
   status |-> 0, route |-> "none"]
\* fetch-rates.js: the currencies the script fetches (the first two of
\* CURRENCIES), and the constants of lines 21-22, BATCH_SIZE scaled from 100
\* rows to 1 as the model's replies carry one row per currency
ScriptCurrencies == <<"USD", "EUR">>
BATCH_SIZE == 1
MAX_RETRIES == 3
\* A run of the script.  pc: where the run is; force: FORCE_UPDATE; date:
\* today; base: the index of the currency being fetched; retryCount: as in
\* fetchCurrencyRates; sent: the requests sent to the rate service, per
\* currency; rates: allRates; batch: the batches uploaded.  completed is not
\* the script's: the rows of the last upload that ran to its end.
IdleScript ==
  [pc |-> "idle", force |-> FALSE, date |-> 0, base |-> 0, retryCount |-> 0,
   sent |-> [i \in 1..Len(ScriptCurrencies) |-> 0], rates |-> <<>>,
   batch |-> 0, completed |-> {}]
\* No worker request served, an empty table, no script run.
BackendIdle ==
  /\ apiWorker = IdleApi(ConfiguredKey)
  /\ db = {}
  /\ script = IdleScript

\* ---------------------------------------------------------------- actions
Init ==
  /\ cache = EmptyCache
  /\ localStorage = [k \in {CACHE_KEY, METADATA_KEY} |-> NoItem]
  /\ now = 0
  /\ calls = [c \in Calls |-> IdleCall]
  /\ net = {}
  /\ lastGood = [b \in Currencies |-> None]
  /\ writeFailures = 0
  /\ service = "constructed"
  /\ app = NoApp
  /\ swState = "installing"
  /\ swCaches = [n \in CacheNames |-> None]
  /\ swFetch = [h \in Handlers |-> IdleHandler]
  /\ swMessage = IdleMessage
  /\ BackendIdle

\* fetchRates(base) is called: lines 32-37
FetchRates(c, base) ==
  /\ service = "constructed"
  /\ calls[c].pc = "idle"
  /\ SendPrimary(c, base)
  /\ UNCHANGED <<cache, localStorage, now, lastGood, writeFailures, service,
    app>>
  /\ UNCHANGED swVars

\* the primary request completes with one of `responses`: lines 39-66
PrimaryResponse(c, responses) ==
  /\ calls[c].pc = "primary"
  /\ <<c, "primary">> \in net
  /\ \E r \in responses, w \in WriteOutcomes :
       LET p == ParsePrimary(r) IN
       IF p.threw
         THEN /\ SendFallback(c, "failed")
              /\ lastGood' = GoodAfter(c, r, FALSE, <<>>)
              /\ UNCHANGED <<cache, localStorage, writeFailures>>
         ELSE /\ cache' = PutCache(calls[c].base, p.rates)
              /\ localStorage' = PutStorage(calls[c].base, p.rates, w)
              /\ writeFailures' = writeFailures + (IF PutThrew(w) THEN 1 ELSE 0)
              /\ lastGood' = GoodAfter(c, r, ~PutThrew(w), p.rates)
              /\ IF PutThrew(w) THEN SendFallback(c, "ok")
                 ELSE ReturnFresh(c, "primary", p.rates)
  /\ UNCHANGED <<now, service, app>>
  /\ UNCHANGED swVars

\* the fallback request completes with one of `responses`: lines 69-93
FallbackResponse(c, responses) ==
  /\ calls[c].pc = "fallback"
  /\ <<c, "fallback">> \in net
  /\ \E r \in responses, w \in WriteOutcomes :
       LET p == ParseFallback(calls[c].base, r) IN
       IF p.threw
         THEN /\ ReturnCached(c, cache, "failed")
              /\ lastGood' = GoodAfter(c, r, FALSE, <<>>)
              /\ UNCHANGED <<cache, localStorage, writeFailures>>
         ELSE /\ cache' = PutCache(calls[c].base, p.rates)
              /\ localStorage' = PutStorage(calls[c].base, p.rates, w)
              /\ writeFailures' = writeFailures + (IF PutThrew(w) THEN 1 ELSE 0)
              /\ lastGood' = GoodAfter(c, r, ~PutThrew(w), p.rates)
              /\ IF PutThrew(w)
                   THEN ReturnCached(c, PutCache(calls[c].base, p.rates), "ok")
                   ELSE ReturnFresh(c, "fallback", p.rates)
  /\ UNCHANGED <<now, service, app>>
  /\ UNCHANGED swVars

\* the caller has taken the result
Finish(c) ==
  /\ calls[c].pc = "returned"
  /\ calls' = [calls EXCEPT ![c] = IdleCall]
  /\ UNCHANGED <<cache, localStorage, now, net, lastGood, writeFailures,
                 service, app>>
  /\ UNCHANGED swVars

\* the page is loaded again: new CurrencyService(), lines 28-30 and 174-180;
\* what the old page had in flight is gone
Reload ==
  /\ cache' = loadFromLocalStorage(localStorage)
  /\ service' = IF ParseThrows(localStorage[CACHE_KEY])
                  THEN "threw" ELSE "constructed"
  /\ calls' = [c \in Calls |-> IdleCall]
  /\ net' = {}
  /\ UNCHANGED <<localStorage, now, lastGood, writeFailures, app>>
  /\ UNCHANGED swVars

Tick ==
  /\ now < MaxTime
  /\ now' = now + 1
  /\ UNCHANGED <<cache, localStorage, calls, net, lastGood, writeFailures,
                 service, app>>
  /\ UNCHANGED swVars

\* One fetchRates at a time, every reply the services may give.
Next ==
  \/ \E b \in Bases : FetchRates(1, b)
  \/ PrimaryResponse(1, PrimaryResponses(calls[1].base))
  \/ FallbackResponse(1, FallbackResponses(calls[1].base))
  \/ Finish(1)
  \/ Reload

Spec == Init /\ [][Next]_vars

\* A small set of replies, for the specifications that explore interleavings
\* or the clock rather than the data: no reply, or one row with rate 1 or 2.
BasicPrimaryResponses(b) ==
  {NetworkError}
    \cup {HttpReply(200, TRUE, "array",
                    <<Row(b, FirstTarget(b), Num(r), PublishedDate)>>, None) :
            r \in {1, 2}}
BasicFallbackResponses(b) ==
  {NetworkError,
   HttpReply(200, TRUE, "object", <<<<FirstTarget(b), Num(2)>>>>, PublishedDate)}

\* fetchRates calls that overlap: the first-load effect and the conversion
\* effect of App.tsx both call it before either has completed.
NextOverlap ==
  \/ \E c \in Calls, b \in Bases : FetchRates(c, b)
  \/ \E c \in Calls : PrimaryResponse(c, BasicPrimaryResponses(calls[c].base))
  \/ \E c \in Calls : FallbackResponse(c, BasicFallbackResponses(calls[c].base))
  \/ \E c \in Calls : Finish(c)
  \/ Reload

SpecOverlap == Init /\ [][NextOverlap]_vars

\* One fetchRates at a time while the clock runs.
NextClock ==
  \/ \E b \in Bases : FetchRates(1, b)
  \/ PrimaryResponse(1, BasicPrimaryResponses(calls[1].base))
  \/ FallbackResponse(1, BasicFallbackResponses(calls[1].base))
  \/ Finish(1)
  \/ Reload
  \/ Tick

SpecClock == Init /\ [][NextClock]_vars

\* The clock runs and a caller whose call has returned goes on; whether a
\* service answers a request is up to the service.
FairSpecClock == SpecClock /\ WF_vars(Tick) /\ WF_vars(Finish(1))

\* What durable storage may hold when the page is opened: nothing, what an
\* earlier page wrote, or text that is not JSON under either key.
StoredSnapshots ==
  {NoItem, Garbage, Item(StringifyCache(EmptyCache)),
   Item(StringifyCache([EmptyCache EXCEPT !["USD"] =
     <<<<[base |-> "USD", target |-> "EUR", rate |-> Num(1),
          date |-> PublishedDate]>>>>]))}
StoredMetadata == {NoItem, Garbage, Item([lastFetch |-> ToISOString(0)])}

\* The page is opened on a storage of any content: new CurrencyService().
InitStartup ==
  /\ localStorage \in [{CACHE_KEY, METADATA_KEY} -> StoredSnapshots \cup StoredMetadata]
  /\ localStorage[CACHE_KEY] \in StoredSnapshots
  /\ localStorage[METADATA_KEY] \in StoredMetadata
  /\ cache = IF ParseThrows(localStorage[CACHE_KEY])
               THEN EmptyCache ELSE loadFromLocalStorage(localStorage)
  /\ service = IF ParseThrows(localStorage[CACHE_KEY])
                 THEN "threw" ELSE "constructed"
  /\ now = 0
  /\ calls = [c \in Calls |-> IdleCall]
  /\ net = {}
  /\ lastGood = [b \in Currencies |-> None]
  /\ writeFailures = 0
  /\ app = NoApp
  /\ swState = "installing"
  /\ swCaches = [n \in CacheNames |-> None]
  /\ swFetch = [h \in Handlers |-> IdleHandler]
  /\ swMessage = IdleMessage
  /\ BackendIdle

SpecStartup == InitStartup /\ [][NextClock]_vars

\* ------------------------------------------------------- App.tsx
\* the metadata signal after setMetadata(currencyService.getMetadata())
MetadataSignal == [lastFetch |-> getMetadata.lastFetch,
                   hasNewData |-> getMetadata.hasNewData]

\* the slot of the next currencyService.fetchRates call
FreeSlots == {c \in Calls : calls[c].pc = "idle"}
FreeSlot == CHOOSE c \in FreeSlots : \A d \in FreeSlots : c <= d

\* What storage holds when the page is opened: nothing, or the snapshot and
\* the metadata an earlier page wrote at time 0, with or without a rate for
\* the pair the page selects.
StoredByApp ==
  {[k \in {CACHE_KEY, METADATA_KEY} |-> NoItem]}
    \cup {[k \in {CACHE_KEY, METADATA_KEY} |->
             IF k = METADATA_KEY THEN Item([lastFetch |-> ToISOString(0)])
             ELSE Item(StringifyCache([EmptyCache EXCEPT ![b] =
                    <<<<[base |-> b, target |-> FirstTarget(b), rate |-> Num(1),
                         date |-> PublishedDate]>>>>]))] : b \in {"GBP", "EUR"}}

\* Lines 6-17: the component function starts: the service is constructed
\* and the signals are created.
InitApp ==
  /\ localStorage \in StoredByApp
  /\ now = 0
  /\ cache = loadFromLocalStorage(localStorage)
  /\ service = "constructed"
  /\ app = [NoApp EXCEPT !.phase = "setup", !.metadata = MetadataSignal]
  /\ calls = [c \in Calls |-> IdleCall]
  /\ net = {}
  /\ lastGood = [b \in Currencies |-> None]
  /\ writeFailures = 0
  /\ swState = "installing"
  /\ swCaches = [n \in CacheNames |-> None]
  /\ swFetch = [h \in Handlers |-> IdleHandler]
  /\ swMessage = IdleMessage
  /\ BackendIdle

\* Lines 20-25, the first-load effect: fetchRates() when the metadata signal
\* says "Never"; it runs in setup and again whenever the signal is set.
FirstLoadEffect(c, lastFetch) ==
  IF lastFetch = <<>>
    THEN SendPrimary(c, app.from)
    ELSE UNCHANGED <<calls, net>>

\* setup runs the first-load effect
AppFirstLoad ==
  /\ app.phase = "setup"
  /\ FreeSlots # {}
  /\ FirstLoadEffect(FreeSlot, app.metadata.lastFetch)
  /\ app' = [app EXCEPT !.phase = "effects"]
  /\ UNCHANGED <<cache, localStorage, now, lastGood, writeFailures, service>>
  /\ UNCHANGED swVars

\* Lines 37-55: setup runs the conversion effect
AppConvertEffect ==
  /\ app.phase = "effects"
  /\ LET cached == convert(app.amount, app.from, app.to) IN
     IF app.from = app.to
       THEN /\ app' = [app EXCEPT !.phase = "mounted",
                                  !.convertedAmount = Num(app.amount)]
            /\ UNCHANGED <<calls, net>>
     ELSE IF cached # None
       THEN /\ app' = [app EXCEPT !.phase = "mounted",
                                  !.convertedAmount = cached]
            /\ UNCHANGED <<calls, net>>
       ELSE /\ app' = [app EXCEPT !.phase = "mounted"]
            /\ FreeSlots # {}
            /\ SendPrimary(FreeSlot, app.from)
  /\ UNCHANGED <<cache, localStorage, now, lastGood, writeFailures, service>>
  /\ UNCHANGED swVars

\* Lines 28-34: the 30 s timer sets the metadata signal, and the first-load
\* effect runs again
AppInterval ==
  /\ app.phase = "mounted"
  /\ FreeSlots # {}
  /\ app' = [app EXCEPT !.metadata = MetadataSignal]
  /\ FirstLoadEffect(FreeSlot, getMetadata.lastFetch)
  /\ UNCHANGED <<cache, localStorage, now, lastGood, writeFailures, service>>
  /\ UNCHANGED swVars

\* Lines 60-73: the wrapper resumes after await currencyService.fetchRates:
\* convert, setConvertedAmount, setMetadata, and the first-load effect runs
\* again
AppFetchDone(c) ==
  /\ app.phase = "mounted"
  /\ calls[c].pc = "returned"
  /\ app' = [app EXCEPT
       !.convertedAmount = convert(app.amount, app.from, app.to),
       !.metadata = MetadataSignal]
  /\ IF getMetadata.lastFetch = <<>>
       THEN SendPrimary(c, app.from)
       ELSE calls' = [calls EXCEPT ![c] = IdleCall] /\ UNCHANGED net
  /\ UNCHANGED <<cache, localStorage, now, lastGood, writeFailures, service>>
  /\ UNCHANGED swVars

\* The page left to itself: setup, the timer, the replies, the clock.
NextApp ==
  \/ AppFirstLoad
  \/ AppConvertEffect
  \/ AppInterval
  \/ \E c \in Calls : AppFetchDone(c)
  \/ \E c \in Calls :
       app.phase = "mounted" /\ PrimaryResponse(c, BasicPrimaryResponses(calls[c].base))
  \/ \E c \in Calls :
       app.phase = "mounted" /\ FallbackResponse(c, BasicFallbackResponses(calls[c].base))
  \/ Tick

SpecApp == InitApp /\ [][NextApp]_vars

\* Effects, timers and continuations run, the clock runs, and the services
\* answer.
FairSpecApp ==
  /\ SpecApp
  /\ WF_vars(AppFirstLoad) /\ WF_vars(AppConvertEffect) /\ WF_vars(AppInterval)
  /\ WF_vars(Tick)
  /\ \A c \in Calls :
       /\ WF_vars(AppFetchDone(c))
       /\ WF_vars(PrimaryResponse(c, BasicPrimaryResponses(calls[c].base)))
       /\ WF_vars(FallbackResponse(c, BasicFallbackResponses(calls[c].base)))

\* Lines 37-55, the conversion effect run again after a signal it reads was
\* set, `selected` being the signals after the set
RerunConvertEffect(selected) ==
  LET cached == convert(selected.amount, selected.from, selected.to) IN
  IF selected.from = selected.to
    THEN /\ app' = [selected EXCEPT !.convertedAmount = Num(selected.amount)]
         /\ UNCHANGED <<calls, net>>
  ELSE IF cached # None
    THEN /\ app' = [selected EXCEPT !.convertedAmount = cached]
         /\ UNCHANGED <<calls, net>>
    ELSE /\ app' = selected
         /\ FreeSlots # {}
         /\ SendPrimary(FreeSlot, selected.from)

\* Lines 171-172: the user picks another "from" currency
AppSetFromCurrency(code) ==
  /\ app.phase = "mounted"
  /\ code # app.from
  /\ RerunConvertEffect([app EXCEPT !.from = code])
  /\ UNCHANGED <<cache, localStorage, now, lastGood, writeFailures, service>>
  /\ UNCHANGED swVars

\* Lines 205-206: the user picks another "to" currency
AppSetToCurrency(code) ==
  /\ app.phase = "mounted"
  /\ code # app.to
  /\ RerunConvertEffect([app EXCEPT !.to = code])
  /\ UNCHANGED <<cache, localStorage, now, lastGood, writeFailures, service>>
  /\ UNCHANGED swVars

\* the currencies the user picks from
Selectable == {"GBP", "USD"}

\* The page with a user who changes the selected currencies.
NextAppUser ==
  \/ AppFirstLoad
  \/ AppConvertEffect
  \/ AppInterval
  \/ \E c \in Calls : AppFetchDone(c)
  \/ \E c \in Calls :
       app.phase = "mounted" /\ PrimaryResponse(c, BasicPrimaryResponses(calls[c].base))
  \/ \E c \in Calls :
       app.phase = "mounted" /\ FallbackResponse(c, BasicFallbackResponses(calls[c].base))
  \/ \E code \in Selectable : AppSetFromCurrency(code)
  \/ \E code \in Selectable : AppSetToCurrency(code)

SpecAppUser == InitApp /\ [][NextAppUser]_vars

\* ------------------------------------------------- the service worker
\* Lines 43-46: url.hostname === "api.frankfurter.app" ||
\* url.hostname.includes("workers.dev")
IsRateService(request) ==
  request.url[1] = FrankfurterHost \/ request.url[1] \in {WorkerHost}

\* cache.match(request) on one cache; caches.match(request) on all of them
MatchIn(name, url) ==
  IF swCaches[name] = None THEN None ELSE swCaches[name][1][url]
MatchAll(url) ==
  LET hits == {i \in 1..Len(CacheOrder) : MatchIn(CacheOrder[i], url) # None}
  IN IF hits = {} THEN None
     ELSE MatchIn(CacheOrder[CHOOSE i \in hits : \A j \in hits : i <= j], url)

\* caches.open(name): the cache is created when it does not exist
Opened(store, name) ==
  IF store[name] = None THEN [store EXCEPT ![name] = <<EmptyPartition>>] ELSE store
\* cache.put(request, response)
PutIn(store, name, url, response) ==
  [Opened(store, name) EXCEPT ![name] = <<[@[1] EXCEPT ![url] = <<response>>]>>]

\* event.respondWith settles: with a response, or with nothing (<<>>)
Deliver(h, out) ==
  swFetch' = [swFetch EXCEPT ![h].pc = "done", ![h].settled = TRUE,
                             ![h].out = out, ![h].held = None]

\* Lines 107-118
OfflineResponse == Response(503, "Offline - no cached data available", TRUE)

\* an install that goes on to "installed" whether or not addAll stored the
\* assets
InstallIgnoringFailure ==
  /\ swState = "installing"
  /\ swCaches' = Opened(swCaches, CACHE_NAME)
  /\ swState' = "installed"
  /\ UNCHANGED swFetch
  /\ UNCHANGED <<serviceVars, swMessage>>

\* Lines 9-16: install; cache.addAll(STATIC_ASSETS) fetches every asset and
\* stores them all, or rejects and stores none
Install ==
  /\ swState = "installing"
  /\ \/ \E body \in Bodies :
          /\ swCaches' = [Opened(swCaches, CACHE_NAME) EXCEPT ![CACHE_NAME] =
                            <<[u \in Urls |->
                                 IF u \in STATIC_ASSETS
                                   THEN <<Response(200, body, FALSE)>>
                                   ELSE Opened(swCaches, CACHE_NAME)[CACHE_NAME][1][u]]>>]
          /\ swState' = "installed"
     \/ /\ swCaches' = Opened(swCaches, CACHE_NAME)
        /\ swState' = "redundant"
  /\ UNCHANGED swFetch
  /\ UNCHANGED <<serviceVars, swMessage>>

\* an activation that deletes nothing
ActivateKeepingCaches ==
  /\ swState = "installed"
  /\ swState' = "active"
  /\ UNCHANGED <<swCaches, swFetch>>
  /\ UNCHANGED <<serviceVars, swMessage>>

\* Lines 19-35: activate; the caches of other builds are deleted
Activate ==
  /\ swState = "installed"
  /\ swState' = "active"
  /\ swCaches' = [n \in CacheNames |->
                    IF n # CACHE_NAME /\ n # CURRENCY_API_CACHE
                      THEN None ELSE swCaches[n]]
  /\ UNCHANGED swFetch
  /\ UNCHANGED <<serviceVars, swMessage>>

\* Lines 38-80: a fetch event arrives and is dispatched
FetchEvent(h, request) ==
  /\ swState = "active"
  /\ swFetch[h].pc = "idle"
  /\ swFetch' = [swFetch EXCEPT ![h] =
       [pc |-> IF IsRateService(request) THEN "api.open"
               ELSE IF request.destination = "document" THEN "doc.fetch"
               ELSE "asset.match",
        request |-> request, network |-> "none", held |-> None,
        settled |-> FALSE, out |-> None]]
  /\ UNCHANGED <<swState, swCaches>>
  /\ UNCHANGED <<serviceVars, swMessage>>

\* Line 84: await caches.open(CURRENCY_API_CACHE)
ApiOpen(h) ==
  /\ swFetch[h].pc = "api.open"
  /\ swCaches' = Opened(swCaches, CURRENCY_API_CACHE)
  /\ swFetch' = [swFetch EXCEPT ![h].pc = "api.fetch"]
  /\ UNCHANGED swState
  /\ UNCHANGED <<serviceVars, swMessage>>

\* Lines 88-99: await fetch(request) settles
ApiNetwork(h) ==
  /\ swFetch[h].pc = "api.fetch"
  /\ \E o \in NetworkOutcomes :
       swFetch' = [swFetch EXCEPT
         ![h].pc = IF o # None /\ ResponseOk(o[1]) THEN "api.put" ELSE "api.match",
         ![h].network = IF o = None THEN "failed" ELSE "replied",
         ![h].held = o]
  /\ UNCHANGED <<swState, swCaches>>
  /\ UNCHANGED <<serviceVars, swMessage>>

\* Lines 92-93: await cache.put(request, clone) settles; it may reject
ApiPut(h) ==
  /\ swFetch[h].pc = "api.put"
  /\ \/ /\ swCaches' = PutIn(swCaches, CURRENCY_API_CACHE,
                             swFetch[h].request.url, swFetch[h].held[1])
        /\ Deliver(h, swFetch[h].held)
     \/ /\ swFetch' = [swFetch EXCEPT ![h].pc = "api.match"]
        /\ UNCHANGED swCaches
  /\ UNCHANGED swState
  /\ UNCHANGED <<serviceVars, swMessage>>

\* a catch block that answers with the cache match alone, without the 503
ApiCachedOnly(h, cached) == Deliver(h, cached)

\* a catch block that answers 503 without looking in the cache
ApiOfflineOnly(h, cached) == Deliver(h, <<OfflineResponse>>)

\* Lines 102-118: await cache.match(request) settles
ApiFallback(h, cached) ==
  IF cached # None THEN Deliver(h, cached) ELSE Deliver(h, <<OfflineResponse>>)

ApiMatch(h) ==
  /\ swFetch[h].pc = "api.match"
  /\ ApiFallback(h, MatchIn(CURRENCY_API_CACHE, swFetch[h].request.url))
  /\ UNCHANGED <<swState, swCaches>>
  /\ UNCHANGED <<serviceVars, swMessage>>

\* Lines 54-60: fetch(request) of a document settles; on a response the
\* response is returned, and its clone is put in the static cache without
\* being awaited
DocNetwork(h) ==
  /\ swFetch[h].pc = "doc.fetch"
  /\ \E o \in NetworkOutcomes :
       IF o # None
         THEN swFetch' = [swFetch EXCEPT ![h].pc = "doc.put", ![h].held = o,
                                         ![h].network = "replied",
                                         ![h].settled = TRUE, ![h].out = o]
         ELSE swFetch' = [swFetch EXCEPT ![h].pc = "doc.match",
                                         ![h].network = "failed"]
  /\ UNCHANGED <<swState, swCaches>>
  /\ UNCHANGED <<serviceVars, swMessage>>

\* Line 58: caches.open(CACHE_NAME).then(cache => cache.put(...)) settles; a
\* put that rejects stores nothing
DocPut(h) ==
  /\ swFetch[h].pc = "doc.put"
  /\ \/ swCaches' = PutIn(swCaches, CACHE_NAME, swFetch[h].request.url,
                          swFetch[h].held[1])
     \/ swCaches' = Opened(swCaches, CACHE_NAME)
  /\ swFetch' = [swFetch EXCEPT ![h].pc = "done", ![h].held = None]
  /\ UNCHANGED swState
  /\ UNCHANGED <<serviceVars, swMessage>>

\* Lines 61-64: caches.match(request), then caches.match("/index.html")
DocFallback(h, cached, shell) ==
  IF cached # None THEN Deliver(h, cached) ELSE Deliver(h, shell)

DocMatch(h) ==
  /\ swFetch[h].pc = "doc.match"
  /\ DocFallback(h, MatchAll(swFetch[h].request.url),
                 MatchAll(Url(AppOrigin, "/index.html")))
  /\ UNCHANGED <<swState, swCaches>>
  /\ UNCHANGED <<serviceVars, swMessage>>

\* an asset branch that goes to the network whatever the caches hold
AssetMatchNetworkFirst(h) ==
  /\ swFetch[h].pc = "asset.match"
  /\ swFetch' = [swFetch EXCEPT ![h].pc = "asset.fetch"]
  /\ UNCHANGED <<swState, swCaches>>
  /\ UNCHANGED <<serviceVars, swMessage>>

\* Lines 70-75: caches.match(request) settles
AssetMatch(h) ==
  /\ swFetch[h].pc = "asset.match"
  /\ IF MatchAll(swFetch[h].request.url) # None
       THEN Deliver(h, MatchAll(swFetch[h].request.url))
       ELSE swFetch' = [swFetch EXCEPT ![h].pc = "asset.fetch"]
  /\ UNCHANGED <<swState, swCaches>>
  /\ UNCHANGED <<serviceVars, swMessage>>

\* Lines 74-78: fetch(request) settles; a rejection becomes undefined
AssetNetwork(h) ==
  /\ swFetch[h].pc = "asset.fetch"
  /\ \E o \in NetworkOutcomes :
       swFetch' = [swFetch EXCEPT
         ![h].pc = "done", ![h].settled = TRUE, ![h].out = o,
         ![h].network = IF o = None THEN "failed" ELSE "replied"]
  /\ UNCHANGED <<swState, swCaches>>
  /\ UNCHANGED <<serviceVars, swMessage>>

\* the page has its answer; the slot is free again
Settled(h) ==
  /\ swFetch[h].pc = "done"
  /\ swFetch' = [swFetch EXCEPT ![h] = IdleHandler]
  /\ UNCHANGED <<swState, swCaches>>
  /\ UNCHANGED <<serviceVars, swMessage>>

\* cache.addAll(STATIC_ASSETS) resolved: every asset is stored, as fetched
AddAll(store, body) ==
  [Opened(store, CACHE_NAME) EXCEPT ![CACHE_NAME] =
     <<[u \in Urls |-> IF u \in STATIC_ASSETS
                         THEN <<Response(200, body, FALSE)>>
                         ELSE Opened(store, CACHE_NAME)[CACHE_NAME][1][u]]>>]

\* a listener that updates the cache whatever the message
MessageEventAnyType(type) ==
  /\ swState \in {"installing", "installed", "active"}
  /\ swMessage.pc = "idle"
  /\ swMessage' = [type |-> type, pc |-> "update", result |-> "none"]
  /\ UNCHANGED <<swState, swCaches, swFetch>>
  /\ UNCHANGED serviceVars

\* Lines 123-127: a message event arrives; updateCache() is called for a
\* CACHE_UPDATE message and nothing is done for any other
MessageEvent(type) ==
  /\ swState \in {"installing", "installed", "active"}
  /\ swMessage.pc = "idle"
  /\ swMessage' = [type |-> type,
                   pc |-> IF type = "CACHE_UPDATE" THEN "update" ELSE "idle",
                   result |-> "none"]
  /\ UNCHANGED <<swState, swCaches, swFetch>>
  /\ UNCHANGED serviceVars

\* Lines 129-132: updateCache() settles; cache.addAll(STATIC_ASSETS) stored
\* every asset, or rejected and stored none
UpdateCache ==
  /\ swMessage.pc = "update"
  /\ \/ /\ \E body \in Bodies : swCaches' = AddAll(swCaches, body)
        /\ swMessage' = [swMessage EXCEPT !.pc = "idle", !.result = "stored"]
     \/ /\ swCaches' = Opened(swCaches, CACHE_NAME)
        /\ swMessage' = [swMessage EXCEPT !.pc = "idle", !.result = "rejected"]
  /\ UNCHANGED <<swState, swFetch>>
  /\ UNCHANGED serviceVars

\* Lifecycle and fetch events.
NextSWFetch ==
  \/ Install
  \/ Activate
  \/ \E h \in Handlers, r \in Requests : FetchEvent(h, r)
  \/ \E h \in Handlers : ApiOpen(h)
  \/ \E h \in Handlers : ApiNetwork(h)
  \/ \E h \in Handlers : ApiPut(h)
  \/ \E h \in Handlers : ApiMatch(h)
  \/ \E h \in Handlers : DocNetwork(h)
  \/ \E h \in Handlers : DocPut(h)
  \/ \E h \in Handlers : DocMatch(h)
  \/ \E h \in Handlers : AssetMatch(h)
  \/ \E h \in Handlers : AssetNetwork(h)
  \/ \E h \in Handlers : Settled(h)

\* Lifecycle, fetch and message events.
NextSW ==
  \/ NextSWFetch
  \/ \E type \in MessageTypes : MessageEvent(type)
  \/ UpdateCache

\* What the worker of the previous build may have left in CacheStorage: its
\* static cache with the shell, its API cache with a rate response.
PriorCaches ==
  {[n \in CacheNames |->
      IF n = <<"currency-converter", PREVIOUS_VERSION>> /\ static
        THEN <<[u \in Urls |-> IF u \in STATIC_ASSETS
                                 THEN <<Response(200, "body1", FALSE)>>
                                 ELSE None]>>
      ELSE IF n = <<"currency-api", PREVIOUS_VERSION>> /\ api
        THEN <<[u \in Urls |-> IF u = Url(WorkerHost, "/api/rates?from=USD")
                                 THEN <<Response(200, "body1", FALSE)>>
                                 ELSE None]>>
      ELSE None] : static \in BOOLEAN, api \in BOOLEAN}

\* The worker of this build starts installing, on a first visit or over the
\* caches of the previous build.
InitSW ==
  /\ cache = EmptyCache
  /\ localStorage = [k \in {CACHE_KEY, METADATA_KEY} |-> NoItem]
  /\ now = 0
  /\ calls = [c \in Calls |-> IdleCall]
  /\ net = {}
  /\ lastGood = [b \in Currencies |-> None]
  /\ writeFailures = 0
  /\ service = "constructed"
  /\ app = NoApp
  /\ swState = "installing"
  /\ swCaches \in PriorCaches
  /\ swFetch = [h \in Handlers |-> IdleHandler]
  /\ swMessage = IdleMessage
  /\ BackendIdle

SpecSW == InitSW /\ [][NextSW]_vars

\* The worker handling fetch events: every operation a handler awaits (a
\* cache operation, a network fetch) settles in the end.
HandlerStep(h) ==
  \/ ApiOpen(h) \/ ApiNetwork(h) \/ ApiPut(h) \/ ApiMatch(h)
  \/ DocNetwork(h) \/ DocPut(h) \/ DocMatch(h)
  \/ AssetMatch(h) \/ AssetNetwork(h)

FairSpecSW ==
  /\ InitSW /\ [][NextSWFetch]_vars
  /\ \A h \in Handlers : WF_vars(HandlerStep(h))

\* ------------------------------------------------- the rate API worker
\* The requests the worker receives: method, path, the Origin and X-API-Key
\* headers ("null": the header is absent).
ApiRequests ==
  [method : {"GET", "POST", "OPTIONS"},
   path : {"/api/rates", "/api/metadata", "/api/status", "/api/health",
           "/api/user-conversion", "/favicon.ico"},
   origin : {"https://www.pocketfx.app", "https://example.org", "null"},
   key : {ConfiguredKey, "wrong", "null"}]

\* Lines 29-32
isPocketFx(request) == request.origin = "https://www.pocketfx.app"
isAuthenticated(request, env) ==
  request.key # "null" /\ env # "undefined" /\ request.key = env

\* Lines 50-74: the handler the switch selects, "none" for Not Found
RouteOf(request) ==
  IF request.path = "/api/rates" THEN "handleGetRates"
  ELSE IF request.path = "/api/metadata" THEN "handleGetMetadata"
  ELSE IF request.path = "/api/status" THEN "handleGetStatus"
  ELSE IF request.path = "/api/health" THEN "handleHealthCheck"
  ELSE IF request.path = "/api/user-conversion" /\ request.method = "POST"
    THEN "handleUserConversion"
  ELSE "none"

\* Lines 7-96: fetch(request, env); dbOk: the handler's D1 query succeeds
WorkerFetch(request, dbOk) ==
  /\ apiWorker' =
       IF request.method = "OPTIONS"
         THEN [apiWorker EXCEPT !.request = request, !.status = 204,
                                !.route = "none"]
       ELSE IF /\ request.path # "/api/health"
               /\ ~isAuthenticated(request, apiWorker.env)
               /\ ~isPocketFx(request)
         THEN [apiWorker EXCEPT !.request = request, !.status = 401,
                                !.route = "none"]
       ELSE [apiWorker EXCEPT
               !.request = request,
               !.route = RouteOf(request),
               !.status = IF RouteOf(request) = "none" THEN 404
                          ELSE IF dbOk THEN 200
                          ELSE IF RouteOf(request) = "handleHealthCheck"
                            THEN 503 ELSE 500]
  /\ UNCHANGED <<db, script>>
  /\ UNCHANGED <<cache, localStorage, now, calls, net, lastGood,
                 writeFailures, service, app>>
  /\ UNCHANGED <<swState, swCaches, swFetch, swMessage>>

\* The worker is deployed with or without the API_KEY secret.
InitWorker ==
  /\ cache = EmptyCache
  /\ localStorage = [k \in {CACHE_KEY, METADATA_KEY} |-> NoItem]
  /\ now = 0
  /\ calls = [c \in Calls |-> IdleCall]
  /\ net = {}
  /\ lastGood = [b \in Currencies |-> None]
  /\ writeFailures = 0
  /\ service = "constructed"
  /\ app = NoApp
  /\ swState = "installing"
  /\ swCaches = [n \in CacheNames |-> None]
  /\ swFetch = [h \in Handlers |-> IdleHandler]
  /\ swMessage = IdleMessage
  /\ apiWorker \in {IdleApi(ConfiguredKey), IdleApi("undefined")}
  /\ db = {}
  /\ script = IdleScript

NextWorker == \E request \in ApiRequests, dbOk \in BOOLEAN : WorkerFetch(request, dbOk)

SpecWorker == InitWorker /\ [][NextWorker]_vars

\* ------------------------------------------------- scripts/fetch-rates.js
\* the rows of exchange_rates for one date
RowsOn(date) == {r \in db : r.date = Num(date)}

\* Lines 24-36: main starts; a run that is not forced checks for rows first;
\* date is new Date().toISOString().split("T")[0]
ScriptStart(force) ==
  /\ script.pc = "idle"
  /\ script' = [IdleScript EXCEPT !.pc = IF force THEN "fetch" ELSE "check",
                                  !.force = force, !.date = now \div TicksPerDay,
                                  !.base = 1,
                                  !.completed = script.completed]
  /\ UNCHANGED <<apiWorker, db>>
  /\ UNCHANGED <<cache, localStorage, now, calls, net, lastGood,
                 writeFailures, service, app>>
  /\ UNCHANGED <<swState, swCaches, swFetch, swMessage>>

\* Lines 59-76: checkExistingData settles; a request that fails counts as no
\* data
ScriptCheck(ok) ==
  /\ script.pc = "check"
  /\ script' = [script EXCEPT
       !.pc = IF ok /\ RowsOn(script.date) # {} THEN "skipped" ELSE "fetch"]
  /\ UNCHANGED <<apiWorker, db>>
  /\ UNCHANGED <<cache, localStorage, now, calls, net, lastGood,
                 writeFailures, service, app>>
  /\ UNCHANGED <<swState, swCaches, swFetch, swMessage>>

\* the script goes on to the next currency, or to the upload after the last
NextCurrency(run) ==
  [run EXCEPT !.base = @ + 1, !.retryCount = 0,
              !.pc = IF run.base = Len(ScriptCurrencies)
                       THEN "upload.delete" ELSE "fetch"]

\* Lines 134-140: the catch of fetchCurrencyRates
RetryOrGiveUp(run) ==
  IF run.retryCount < MAX_RETRIES
    THEN [run EXCEPT !.retryCount = @ + 1]
    ELSE NextCurrency(run)

\* Lines 103-141 (and 85-98): one request of fetchCurrencyRates settles
ScriptFetch(ok) ==
  /\ script.pc = "fetch"
  /\ LET b == ScriptCurrencies[script.base]
         sentNow == [script EXCEPT !.sent[script.base] = @ + 1]
     IN script' =
          IF ok
            THEN NextCurrency([sentNow EXCEPT !.rates =
                   Append(@, Row(b, FirstTarget(b), Num(1), Num(script.date)))])
            ELSE RetryOrGiveUp(sentNow)
  /\ UNCHANGED <<apiWorker, db>>
  /\ UNCHANGED <<cache, localStorage, now, calls, net, lastGood,
                 writeFailures, service, app>>
  /\ UNCHANGED <<swState, swCaches, swFetch, swMessage>>

\* Lines 151-155: the number of batches of ratesData
NumBatches(run) == (Len(run.rates) + BATCH_SIZE - 1) \div BATCH_SIZE

\* Lines 171-179: deleteExistingData settles; its failure is logged, no more
ScriptDelete(ok) ==
  /\ script.pc = "upload.delete"
  /\ db' = IF ok THEN db \ RowsOn(script.date) ELSE db
  /\ script' = [script EXCEPT
       !.pc = IF NumBatches(script) = 0 THEN "upload.metadata" ELSE "upload.batch"]
  /\ UNCHANGED apiWorker
  /\ UNCHANGED <<cache, localStorage, now, calls, net, lastGood,
                 writeFailures, service, app>>
  /\ UNCHANGED <<swState, swCaches, swFetch, swMessage>>

\* Lines 159-166 and 181-192: uploadBatch settles with the rows of the next
\* batch (ratesData.slice(i, i + BATCH_SIZE)); a failed request throws, as
\* does an INSERT of a row that breaks the schema's UNIQUE(base_currency,
\* target_currency, date), and main exits with status 1
ScriptUploadBatch(ok) ==
  /\ script.pc = "upload.batch"
  /\ LET rows == {script.rates[k] :
                     k \in {k \in 1..Len(script.rates) :
                              /\ script.batch * BATCH_SIZE < k
                              /\ k <= (script.batch + 1) * BATCH_SIZE}}
         conflicts == \E r \in rows, q \in db :
                        /\ r.base_currency = q.base_currency
                        /\ r.target_currency = q.target_currency
                        /\ r.date = q.date
     IN
     IF ok /\ ~conflicts
       THEN /\ db' = db \cup rows
            /\ script' = [script EXCEPT
                 !.batch = @ + 1,
                 !.pc = IF script.batch + 1 = NumBatches(script)
                          THEN "upload.metadata" ELSE "upload.batch"]
       ELSE /\ db' = db
            /\ script' = [script EXCEPT !.pc = "failed"]
  /\ UNCHANGED apiWorker
  /\ UNCHANGED <<cache, localStorage, now, calls, net, lastGood,
                 writeFailures, service, app>>
  /\ UNCHANGED <<swState, swCaches, swFetch, swMessage>>

\* Lines 168-169 and 194-202: updateMetadata settles
ScriptUpdateMetadata(ok) ==
  /\ script.pc = "upload.metadata"
  /\ script' = IF ok
       THEN [script EXCEPT !.pc = "done",
                           !.completed = {script.rates[k] : k \in 1..Len(script.rates)}]
       ELSE [script EXCEPT !.pc = "failed"]
  /\ UNCHANGED <<apiWorker, db>>
  /\ UNCHANGED <<cache, localStorage, now, calls, net, lastGood,
                 writeFailures, service, app>>
  /\ UNCHANGED <<swState, swCaches, swFetch, swMessage>>

\* the process has exited; the workflow runs the script again later
ScriptExit ==
  /\ script.pc \in {"skipped", "done", "failed"}
  /\ script' = [IdleScript EXCEPT !.completed = script.completed]
  /\ UNCHANGED <<apiWorker, db>>
  /\ UNCHANGED <<cache, localStorage, now, calls, net, lastGood,
                 writeFailures, service, app>>
  /\ UNCHANGED <<swState, swCaches, swFetch, swMessage>>

NextScript ==
  \/ \E force \in BOOLEAN : ScriptStart(force)
  \/ \E ok \in BOOLEAN : ScriptCheck(ok)
  \/ \E ok \in BOOLEAN : ScriptFetch(ok)
  \/ \E ok \in BOOLEAN : ScriptDelete(ok)
  \/ \E ok \in BOOLEAN : ScriptUploadBatch(ok)
  \/ \E ok \in BOOLEAN : ScriptUpdateMetadata(ok)
  \/ ScriptExit

SpecScript == Init /\ [][NextScript]_vars

\* ------------------------------- fetchRates through the service worker
\* The two requests fetchRates("USD") issues (lines 35 and 67)
PrimaryRequest == Request(WorkerHost, "/api/rates?from=USD", "")
FallbackRequest == Request(FrankfurterHost, "/latest?from=USD", "")

\* fetchRates("USD") is called on a page the worker controls: the primary
\* request raises a fetch event
RoutedFetchRates(c, h) ==
  /\ service = "constructed"
  /\ calls[c].pc = "idle"
  /\ swState = "active"
  /\ swFetch[h].pc = "idle"
  /\ SendPrimary(c, "USD")
  /\ swFetch' = [swFetch EXCEPT ![h] =
       [IdleHandler EXCEPT !.pc = "api.open", !.request = PrimaryRequest]]
  /\ UNCHANGED <<cache, localStorage, now, lastGood, writeFailures, service,
                 app>>
  /\ UNCHANGED <<swState, swCaches, swMessage, backendVars>>

\* Lines 39-66, the response being the one the worker answered with: a 2xx
\* response carries the rates of its body (the worker hands a stored response
\* back as it was stored), the 503 and an error status carry none.  The
\* fallback request raises the next fetch event
RoutedPrimaryResponse(c, h) ==
  /\ calls[c].pc = "primary"
  /\ <<c, "primary">> \in net
  /\ swFetch[h].pc = "done"
  /\ swFetch[h].request = PrimaryRequest
  /\ \E w \in WriteOutcomes :
       LET out == swFetch[h].out[1]
           r == IF ResponseOk(out)
                  THEN HttpReply(out.status, TRUE, "array",
                         <<Row("USD", FirstTarget("USD"),
                               Num(IF out.body = "body1" THEN 1 ELSE 2),
                               PublishedDate)>>, None)
                  ELSE HttpReply(out.status, TRUE, "absent", <<>>, None)
           p == ParsePrimary(r) IN
       IF p.threw
         THEN /\ SendFallback(c, "failed")
              /\ swFetch' = [swFetch EXCEPT ![h] =
                   [IdleHandler EXCEPT !.pc = "api.open",
                                       !.request = FallbackRequest]]
              /\ lastGood' = GoodAfter(c, r, FALSE, <<>>)
              /\ UNCHANGED <<cache, localStorage, writeFailures>>
         ELSE /\ cache' = PutCache(calls[c].base, p.rates)
              /\ localStorage' = PutStorage(calls[c].base, p.rates, w)
              /\ writeFailures' = writeFailures + (IF PutThrew(w) THEN 1 ELSE 0)
              /\ lastGood' = GoodAfter(c, r, ~PutThrew(w), p.rates)
              /\ IF PutThrew(w)
                   THEN /\ SendFallback(c, "ok")
                        /\ swFetch' = [swFetch EXCEPT ![h] =
                             [IdleHandler EXCEPT !.pc = "api.open",
                                                 !.request = FallbackRequest]]
                   ELSE /\ ReturnFresh(c, "primary", p.rates)
                        /\ swFetch' = [swFetch EXCEPT ![h] = IdleHandler]
  /\ UNCHANGED <<now, service, app>>
  /\ UNCHANGED <<swState, swCaches, swMessage, backendVars>>

\* Lines 69-93, the response being the one the worker answered with
RoutedFallbackResponse(c, h) ==
  /\ calls[c].pc = "fallback"
  /\ <<c, "fallback">> \in net
  /\ swFetch[h].pc = "done"
  /\ swFetch[h].request = FallbackRequest
  /\ \E w \in WriteOutcomes :
       LET out == swFetch[h].out[1]
           r == IF ResponseOk(out)
                  THEN HttpReply(out.status, TRUE, "object",
                         <<<<FirstTarget("USD"),
                             Num(IF out.body = "body1" THEN 1 ELSE 2)>>>>,
                         PublishedDate)
                  ELSE HttpReply(out.status, TRUE, "absent", <<>>, None)
           p == ParseFallback(calls[c].base, r) IN
       IF p.threw
         THEN /\ ReturnCached(c, cache, "failed")
              /\ lastGood' = GoodAfter(c, r, FALSE, <<>>)
              /\ UNCHANGED <<cache, localStorage, writeFailures>>
         ELSE /\ cache' = PutCache(calls[c].base, p.rates)
              /\ localStorage' = PutStorage(calls[c].base, p.rates, w)
              /\ writeFailures' = writeFailures + (IF PutThrew(w) THEN 1 ELSE 0)
              /\ lastGood' = GoodAfter(c, r, ~PutThrew(w), p.rates)
              /\ IF PutThrew(w)
                   THEN ReturnCached(c, PutCache(calls[c].base, p.rates), "ok")
                   ELSE ReturnFresh(c, "fallback", p.rates)
  /\ swFetch' = [swFetch EXCEPT ![h] = IdleHandler]
  /\ UNCHANGED <<now, service, app>>
  /\ UNCHANGED <<swState, swCaches, swMessage, backendVars>>

\* The worker installs and activates; then one fetchRates at a time, its
\* requests answered by the worker.
NextRouted ==
  \/ Install
  \/ Activate
  \/ \E h \in Handlers : RoutedFetchRates(1, h)
  \/ \E h \in Handlers : ApiOpen(h)
  \/ \E h \in Handlers : ApiNetwork(h)
  \/ \E h \in Handlers : ApiPut(h)
  \/ \E h \in Handlers : ApiMatch(h)
  \/ \E h \in Handlers : RoutedPrimaryResponse(1, h)
  \/ \E h \in Handlers : RoutedFallbackResponse(1, h)
  \/ Finish(1)
  \/ Tick

SpecRouted == Init /\ [][NextRouted]_vars

\* ------------------------------- the page on a storage that takes no write
\* Lines 39-66 when localStorage.setItem throws on every call (the quota is
\* used up, or the browser gives the page no storage): a reply that parses
\* is put in the map, saveToLocalStorage throws and the fallback is tried
PrimaryResponseFull(c, responses) ==
  /\ calls[c].pc = "primary"
  /\ <<c, "primary">> \in net
  /\ \E r \in responses :
       LET p == ParsePrimary(r) IN
       /\ cache' = IF p.threw THEN cache ELSE PutCache(calls[c].base, p.rates)
       /\ SendFallback(c, IF p.threw THEN "failed" ELSE "ok")
       /\ lastGood' = GoodAfter(c, r, FALSE, <<>>)
  /\ UNCHANGED <<localStorage, writeFailures, now, service, app>>
  /\ UNCHANGED swVars

\* Lines 69-93 on such a storage: the fallback reply is put in the map,
\* saveToLocalStorage throws and the catch returns what the map holds
FallbackResponseFull(c, responses) ==
  /\ calls[c].pc = "fallback"
  /\ <<c, "fallback">> \in net
  /\ \E r \in responses :
       LET p == ParseFallback(calls[c].base, r) IN
       /\ cache' = IF p.threw THEN cache ELSE PutCache(calls[c].base, p.rates)
       /\ ReturnCached(c, cache', IF p.threw THEN "failed" ELSE "ok")
       /\ lastGood' = GoodAfter(c, r, FALSE, <<>>)
  /\ UNCHANGED <<localStorage, writeFailures, now, service, app>>
  /\ UNCHANGED swVars

NextAppFull ==
  \/ AppFirstLoad
  \/ AppConvertEffect
  \/ AppInterval
  \/ \E c \in Calls : AppFetchDone(c)
  \/ \E c \in Calls :
       app.phase = "mounted"
         /\ PrimaryResponseFull(c, BasicPrimaryResponses(calls[c].base))
  \/ \E c \in Calls :
       app.phase = "mounted"
         /\ FallbackResponseFull(c, BasicFallbackResponses(calls[c].base))
  \/ Tick

\* The page left to itself on such a storage: effects, timers and
\* continuations run, the clock runs, and the services answer.
FairSpecAppFull ==
  /\ InitApp /\ [][NextAppFull]_vars
  /\ WF_vars(AppFirstLoad) /\ WF_vars(AppConvertEffect) /\ WF_vars(AppInterval)
  /\ WF_vars(Tick)
  /\ \A c \in Calls :
       /\ WF_vars(AppFetchDone(c))
       /\ WF_vars(PrimaryResponseFull(c, BasicPrimaryResponses(calls[c].base)))
       /\ WF_vars(FallbackResponseFull(c, BasicFallbackResponses(calls[c].base)))

\* ------------------------------------------------------------------ claims
\* what a RateSet of the data model is: one entry per target, each with a
\* target and a rate
Entries(b) == IF cache[b] = None THEN <<>> ELSE cache[b][1]
UniqueTarget(rates, i) ==
  \A j \in 1..Len(rates) : rates[j].target = rates[i].target => j = i
HasRate(rates, i) ==
  /\ rates[i].target \in Currencies
  /\ rates[i].rate # None
  /\ UniqueTarget(rates, i)

\* C1: fetchRates(base) never rejects: whatever the primary and the fallback
\* request and the storage writes do, a call that has completed has returned
\* a list of rates (possibly empty).
C1_FetchRatesNeverThrows ==
  \A c \in Calls :
    /\ calls[c].pc # "rejected"
    /\ calls[c].pc = "returned" =>
         /\ calls[c].via \in {"primary", "fallback", "cache"}
         /\ DOMAIN calls[c].result = 1..Len(calls[c].result)

\* a call whose two steps both threw, one of them on a storage write, has
\* returned
C1_Witness ==
  \E c \in Calls :
    /\ calls[c].pc = "returned" /\ calls[c].via = "cache"
    /\ calls[c].primary = "failed" /\ calls[c].fallback = "ok"
    /\ writeFailures > 0

\* C2: after a fetchRates(base) that returned fresh rates, as long as every
\* outbound request since has ended in a network error (failed calls and
\* reloads included), convert(a, base, t) is a * r for every rate r of that
\* fetch.
C2_OfflineKeepsRates ==
  \A b \in Bases :
    lastGood[b] # None =>
      \A i \in 1..Len(lastGood[b][1]), a \in Amounts :
        LET e == lastGood[b][1][i] IN
        (HasRate(lastGood[b][1], i) /\ e.target # b) =>
          convert(a, b, e.target) = Num(a * e.rate[1])

\* a later call for the base has failed over to the map, which still
\* holds the rate 2 of the earlier fetch
C2_Witness ==
  \E c \in Calls :
    /\ calls[c].pc = "returned" /\ calls[c].via = "cache"
    /\ calls[c].primary = "failed" /\ calls[c].fallback = "failed"
    /\ lastGood[calls[c].base] # None
    /\ \E i \in 1..Len(lastGood[calls[c].base][1]) :
         /\ HasRate(lastGood[calls[c].base][1], i)
         /\ lastGood[calls[c].base][1][i].rate = Num(2)

C4_BothFailReturnsPrior ==
  \A c \in Calls :
    (/\ calls[c].pc = "returned"
     /\ calls[c].primary = "failed"
     /\ calls[c].fallback = "failed") =>
      calls[c].result = (IF calls[c].prior = None THEN <<>> ELSE calls[c].prior[1])

\* C5: for base # target, when the RateSet stored for base has an entry with
\* that target and rate r, convert(a, base, target) is a * r.
C5_ConvertMultiplies ==
  \A b \in Currencies, a \in Amounts :
    \A i \in 1..Len(Entries(b)) :
      (HasRate(Entries(b), i) /\ Entries(b)[i].target # b) =>
        convert(a, b, Entries(b)[i].target) = Num(a * Entries(b)[i].rate[1])

\* the store holds two rates for USD and a rate of 2 for EUR
C5_Witness ==
  /\ Len(Entries("USD")) = 2
  /\ HasRate(Entries("USD"), 1) /\ HasRate(Entries("USD"), 2)
  /\ Len(Entries("EUR")) = 1
  /\ HasRate(Entries("EUR"), 1) /\ Entries("EUR")[1].rate = Num(2)

\* C6: convert(a, x, x) is a, whatever the store holds.
C6_ConvertIdentity ==
  \A x \in Currencies, a \in Amounts : convert(a, x, x) = Num(a)

\* the store holds rates for USD, an empty list for EUR, nothing for GBP
C6_Witness ==
  /\ Len(Entries("USD")) > 0
  /\ cache["EUR"] = <<<<>>>>
  /\ cache["GBP"] = None

\* C7: for from # to, convert is null (not 0, not another number) when the
\* store has no RateSet for from, an empty one, or one with no entry whose
\* target is to.
C7_UnknownRateIsNull ==
  \A from \in Currencies, to \in Currencies, a \in Amounts :
    (/\ from # to
     /\ \A i \in 1..Len(Entries(from)) : Entries(from)[i].target # to) =>
      convert(a, from, to) = None

\* the three cases at once: nothing for GBP, an empty list for EUR, and for
\* USD a list with EUR but not GBP
C7_Witness ==
  /\ cache["GBP"] = None
  /\ cache["EUR"] = <<<<>>>>
  /\ Len(Entries("USD")) = 1
  /\ Entries("USD")[1].target = "EUR"

C9_OfflineRateRequest ==
  [][\A h \in Handlers :
       (/\ swFetch[h].pc = "api.match"
        /\ swFetch[h].network = "failed"
        /\ swFetch'[h].pc = "done") =>
         LET cached == MatchIn(CURRENCY_API_CACHE, swFetch[h].request.url) IN
         IF cached # None
           THEN /\ swFetch'[h].out = cached
                /\ cached[1].status = 200
                /\ ~cached[1].offline
           ELSE /\ swFetch'[h].out # None
                /\ swFetch'[h].out[1].status = 503
                /\ swFetch'[h].out[1].offline]_vars

\* a rate-service request whose network request failed was answered from
\* the cache
C9_Witness ==
  \E h \in Handlers :
    /\ swFetch[h].pc = "done"
    /\ IsRateService(swFetch[h].request)
    /\ swFetch[h].network = "failed"
    /\ swFetch[h].out # None
    /\ swFetch[h].out[1].status = 200

C11_UnparseableStorageStartsEmpty ==
  /\ service = "constructed"
  /\ ParseThrows(localStorage[METADATA_KEY]) =>
       ~getMetadata.threw /\ getMetadata.lastFetch = <<>>

\* C12: writing the map to storage with saveToLocalStorage() and reading it
\* with the constructor of a new instance gives the same map: the same bases,
\* and for each the same entries (base, target, rate, date) in the same order.
C12_SnapshotRoundTrip ==
  loadFromLocalStorage(SavedStorage(localStorage, cache, TRUE)) = cache

\* storage holds the snapshot of a map with two bases, one of them with two
\* entries, and a new instance reads that map from it
C12_Witness ==
  /\ localStorage[CACHE_KEY] = Item(StringifyCache(cache))
  /\ loadFromLocalStorage(localStorage) = cache
  /\ \E b \in Bases : cache[b] # None /\ Len(cache[b][1]) = 2
  /\ \A b \in Bases : cache[b] # None /\ Len(cache[b][1]) > 0

\* C13: between puts, the snapshot in storage is the snapshot of the map in
\* memory, and once the map holds rates storage holds the metadata; every
\* change of the map comes with a write of the snapshot and of the metadata.
C13_SnapshotMatchesMap ==
  /\ loadFromLocalStorage(localStorage) = cache
  /\ cache # EmptyCache => localStorage[METADATA_KEY].kind = "text"

\* C14: when a call has returned the rates of the primary (of the fallback)
\* reply, the stored metadata has a member source naming that service.
C14_MetadataRecordsSource ==
  \A c \in Calls :
    (calls[c].pc = "returned" /\ calls[c].via \in {"primary", "fallback"}) =>
      /\ localStorage[METADATA_KEY].kind = "text"
      /\ "source" \in DOMAIN localStorage[METADATA_KEY].json
      /\ localStorage[METADATA_KEY].json["source"] = calls[c].via

\* C15: a reply whose body is malformed (no data member, or a record without
\* base_currency, target_currency, rate or date) counts as a failed step and
\* nothing of it is stored or returned as fresh: every entry of the map, and
\* of a list returned from the primary or the fallback step, has its base,
\* target, rate and date.
C15_MalformedBodyIsFailure ==
  LET Complete(e) ==
        e.base # Undefined /\ e.target # Undefined /\ e.rate # None /\ e.date # None
  IN /\ \A b \in Currencies :
          cache[b] # None => \A i \in 1..Len(cache[b][1]) : Complete(cache[b][1][i])
     /\ \A c \in Calls :
          calls[c].via \in {"primary", "fallback"} =>
            \A i \in 1..Len(calls[c].result) : Complete(calls[c].result[i])

\* C16: when a call returns the rates of a reply, the map holds for its base
\* exactly those rates: the set held before is replaced, not merged.
C16_PutReplaces ==
  [][\A c \in Calls :
       (/\ calls[c].pc # "returned"
        /\ calls'[c].pc = "returned"
        /\ calls'[c].via \in {"primary", "fallback"}) =>
         cache'[calls'[c].base] = <<calls'[c].result>>]_vars

\* a call returned fresh rates for a base that had other rates before
C16_Witness ==
  \E c \in Calls :
    /\ calls[c].pc = "returned" /\ calls[c].via \in {"primary", "fallback"}
    /\ calls[c].prior # None
    /\ Len(calls[c].prior[1]) > 0
    /\ \E i \in 1..Len(calls[c].prior[1]) :
         \A j \in 1..Len(calls[c].result) :
           calls[c].result[j] # calls[c].prior[1][i]

\* C17: every set the map holds under a base has only entries of that base
\* and at most one entry for a target.
C17_StoredSetsKeyed ==
  \A b \in Currencies :
    cache[b] # None =>
      \A i \in 1..Len(cache[b][1]) :
        /\ cache[b][1][i].base = b
        /\ \A j \in 1..Len(cache[b][1]) :
             cache[b][1][j].target = cache[b][1][i].target => j = i

\* C18: a request of fetchRates does not stay in flight for ever: when the
\* service never answers, the request ends as failed after a timeout and the
\* call goes on to its next step.
C18_SilentSourceTimesOut ==
  \A c \in Calls :
    (calls[c].pc \in {"primary", "fallback"}) ~>
      (calls[c].pc \notin {"primary", "fallback"})

\* C19: at most one fetchRates call per base is outstanding: a call made
\* while another for the same base is pending sends no request of its own.
C19_OneFetchPerBase ==
  \A c, d \in Calls :
    (/\ c # d
     /\ calls[c].pc \in {"primary", "fallback"}
     /\ calls[d].pc \in {"primary", "fallback"}) =>
      calls[c].base # calls[d].base

\* the stored lastFetch is of today's UTC date, or of another one
FetchedToday ==
  /\ localStorage[METADATA_KEY].kind = "text"
  /\ localStorage[METADATA_KEY].json.lastFetch.date = ToISOString(now).date
FetchedAnotherDay ==
  /\ localStorage[METADATA_KEY].kind = "text"
  /\ localStorage[METADATA_KEY].json.lastFetch.date # ToISOString(now).date

\* C20: when the stored lastFetch is of another UTC date than today, the
\* page issues a fetchRates call by itself in the end; and while it is of
\* today, the rate of the selected pair is known and the metadata signal is
\* not "Never", no step issues one.
C20_StaleTriggersFetch ==
  /\ (app.phase = "mounted" /\ FetchedAnotherDay) ~>
       (\E c \in Calls : calls[c].pc \in {"primary", "fallback"})
  /\ [][(/\ app.phase = "mounted"
         /\ FetchedToday
         /\ app.metadata.lastFetch # <<>>
         /\ convert(app.amount, app.from, app.to) # None) =>
          \A c \in Calls :
            calls'[c].nPrimary > 0 => calls'[c].nPrimary = calls[c].nPrimary]_vars

\* C21: a document request goes to the network first.  When a response
\* comes, the proxy returns it and the static cache then holds it for the
\* request; when the network request fails, the proxy returns the cached
\* document, and /index.html from the cache when there is none.
C21_DocumentNetworkFirst ==
  [][\A h \in Handlers :
       LET url == swFetch[h].request.url IN
       /\ (swFetch[h].pc = "doc.fetch" /\ swFetch'[h].network = "replied") =>
            /\ swFetch'[h].settled
            /\ swFetch'[h].out = swFetch'[h].held
            /\ swFetch'[h].out # None
       /\ (swFetch[h].pc = "doc.put" /\ swFetch'[h].pc = "done") =>
            /\ swCaches'[CACHE_NAME] # None
            /\ swCaches'[CACHE_NAME][1][url] = swFetch[h].out
       /\ (swFetch[h].pc = "doc.match" /\ swFetch'[h].pc = "done") =>
            swFetch'[h].out = IF MatchAll(url) # None THEN MatchAll(url)
                              ELSE MatchAll(Url(AppOrigin, "/index.html"))]_vars

\* C22: a request that is neither for a rate service nor for a document is
\* answered from the caches when they hold it, with no network request;
\* otherwise the network is asked and its response is the answer.  No step of
\* such a handler changes a cache.
C22_AssetCacheFirst ==
  [][\A h \in Handlers :
       LET url == swFetch[h].request.url IN
       /\ (/\ swFetch[h].pc = "asset.match" /\ swFetch'[h] # swFetch[h]
           /\ MatchAll(url) # None) =>
            /\ swFetch'[h].pc = "done"
            /\ swFetch'[h].out = MatchAll(url)
            /\ swFetch'[h].network = "none"
       /\ (/\ swFetch[h].pc = "asset.match" /\ swFetch'[h] # swFetch[h]
           /\ MatchAll(url) = None) =>
            swFetch'[h].pc = "asset.fetch" /\ ~swFetch'[h].settled
       /\ (swFetch[h].pc = "asset.fetch" /\ swFetch'[h].network = "replied") =>
            swFetch'[h].pc = "done" /\ swFetch'[h].out # None
       /\ (swFetch[h].pc \in {"asset.match", "asset.fetch"}
             /\ swFetch'[h] # swFetch[h]) =>
            swCaches' = swCaches]_vars

\* a request for /index.html made by a script was answered from the static
\* cache without a network request
C22_Witness ==
  \E h \in Handlers :
    /\ swFetch[h].pc = "done"
    /\ ~IsRateService(swFetch[h].request)
    /\ swFetch[h].request.destination # "document"
    /\ swFetch[h].network = "none"
    /\ swFetch[h].out # None

\* C23: when the network has answered a rate-service request with a
\* successful response, the handler returns that response, and as it does the
\* API cache holds that response for the request.
C23_FreshRateResponseCached ==
  [][\A h \in Handlers :
       (swFetch[h].pc = "api.put" /\ swFetch'[h] # swFetch[h]) =>
         /\ swFetch'[h].pc = "done"
         /\ swFetch'[h].out = swFetch[h].held
         /\ MatchIn(CURRENCY_API_CACHE, swFetch[h].request.url)' = swFetch[h].held]_vars

\* C24: once the worker of this build is active, CacheStorage holds no cache
\* of another build, and what a handler answers from a cache when the network
\* failed is held by a cache of this build.
C24_OnlyCurrentCaches ==
  /\ [](swState = "active" =>
          \A n \in CacheNames :
            swCaches[n] # None => n \in {CACHE_NAME, CURRENCY_API_CACHE})
  /\ [][\A h \in Handlers :
          (/\ swFetch[h].pc # "done" /\ swFetch'[h].pc = "done"
           /\ swFetch'[h].network = "failed"
           /\ swFetch'[h].out \notin {None, <<OfflineResponse>>}) =>
            \E n \in {CACHE_NAME, CURRENCY_API_CACHE} :
              MatchIn(n, swFetch[h].request.url) = swFetch'[h].out
              \/ MatchIn(n, Url(AppOrigin, "/index.html")) = swFetch'[h].out]_vars

\* the worker is active, and a rate request that found the network down got
\* the offline response
C24_Witness ==
  /\ swState = "active"
  /\ \A n \in OldCacheNames : swCaches[n] = None
  /\ \E h \in Handlers :
       /\ swFetch[h].pc = "done"
       /\ IsRateService(swFetch[h].request)
       /\ swFetch[h].network = "failed"
       /\ swFetch[h].out = <<OfflineResponse>>

\* C25: the worker goes from installing to installed to active, or from
\* installing to redundant; once past installing with success its static
\* cache holds every asset of STATIC_ASSETS, and only an active worker
\* handles a request.
C25_InstallBeforeActive ==
  /\ [](swState \in {"installed", "active"} =>
          \A u \in STATIC_ASSETS : MatchIn(CACHE_NAME, u) # None)
  /\ [](\A h \in Handlers : swFetch[h].pc # "idle" => swState = "active")
  /\ [][swState' # swState =>
          <<swState, swState'>> \in {<<"installing", "installed">>,
                                     <<"installing", "redundant">>,
                                     <<"installed", "active">>}]_vars

\* the active worker is handling a request, with the manifest stored
C25_Witness ==
  /\ swState = "active"
  /\ \A u \in STATIC_ASSETS : MatchIn(CACHE_NAME, u) # None
  /\ \E h \in Handlers : swFetch[h].pc \notin {"idle", "done"}

\* C26 as stated: when the worker has handled a CACHE_UPDATE message its
\* static cache holds every asset of STATIC_ASSETS and nothing else has
\* changed; a message of another type changes no cache.
C26_UpdateRepopulates ==
  [][/\ (swMessage.pc = "update" /\ swMessage'.pc = "idle") =>
          /\ \A u \in STATIC_ASSETS : MatchIn(CACHE_NAME, u)' # None
          /\ \A n \in CacheNames \ {CACHE_NAME} : swCaches'[n] = swCaches[n]
          /\ UNCHANGED <<swState, swFetch>>
     /\ (swMessage' # swMessage /\ swMessage'.type # "CACHE_UPDATE") =>
          /\ swMessage'.pc = "idle"
          /\ UNCHANGED <<swState, swCaches, swFetch>>]_vars

\* C26 amended: handling a CACHE_UPDATE message either stores every asset of
\* STATIC_ASSETS in the static cache, as just fetched, or, when the assets
\* cannot all be fetched and stored, stores nothing; either way it changes no
\* other entry, no other cache and nothing else.  A message of another type
\* starts no update and changes no cache.
C26_UpdateRepopulatesOrFails ==
  [][/\ (swMessage.pc = "update" /\ swMessage'.pc = "idle") =>
          /\ \/ /\ swMessage'.result = "stored"
                /\ \E body \in Bodies :
                     \A u \in STATIC_ASSETS :
                       MatchIn(CACHE_NAME, u)' = <<Response(200, body, FALSE)>>
             \/ /\ swMessage'.result = "rejected"
                /\ \A u \in STATIC_ASSETS :
                     MatchIn(CACHE_NAME, u)' = MatchIn(CACHE_NAME, u)
          /\ \A u \in Urls \ STATIC_ASSETS :
               MatchIn(CACHE_NAME, u)' = MatchIn(CACHE_NAME, u)
          /\ \A n \in CacheNames \ {CACHE_NAME} : swCaches'[n] = swCaches[n]
          /\ UNCHANGED <<swState, swFetch>>
     /\ (swMessage' # swMessage /\ swMessage'.type # "CACHE_UPDATE") =>
          /\ swMessage'.pc = "idle"
          /\ UNCHANGED <<swState, swCaches, swFetch>>]_vars

\* the active worker has handled a CACHE_UPDATE message: the static cache
\* holds the assets, and the API cache still holds a rate response
C26_Witness ==
  /\ swState = "active"
  /\ swMessage.type = "CACHE_UPDATE" /\ swMessage.result = "stored"
  /\ \A u \in STATIC_ASSETS : MatchIn(CACHE_NAME, u) # None
  /\ MatchIn(CURRENCY_API_CACHE, Url(WorkerHost, "/api/rates?from=USD")) # None

\* C27: a handler answers with the payload marked offline: true only when
\* its network request failed and the API cache holds nothing for the
\* request; it never does when the network answered.
C27_OfflineOnlyWhenUnreachable ==
  [][\A h \in Handlers :
       (/\ swFetch[h].pc # "done" /\ swFetch'[h].pc = "done"
        /\ swFetch'[h].out # None
        /\ swFetch'[h].out[1].offline) =>
         /\ swFetch[h].network = "failed"
         /\ MatchIn(CURRENCY_API_CACHE, swFetch[h].request.url) = None]_vars

\* C28: when fetchRates(from) has returned rates it got from the primary or
\* the fallback service, and they hold an entry for `to` with rate r (the
\* first such entry when there are several), convert(a, from, to) returns
\* a * r, for every amount a and every `to` other than `from`.
C28_RetryAfterFetchConverts ==
  \A c \in Calls :
    (calls[c].pc = "returned" /\ calls[c].via \in {"primary", "fallback"}) =>
      \A t \in Currencies \ {calls[c].base}, a \in Amounts :
        LET i == FirstWithTarget(calls[c].result, t) IN
        (i # 0 /\ calls[c].result[i].rate # None) =>
          convert(a, calls[c].base, t) = Num(a * calls[c].result[i].rate[1])

\* convert signalled an unknown rate when fetchRates was called (the store
\* had nothing for the base), the fallback service supplied the rate 2, and
\* convert now returns twice the amount
C28_Witness ==
  \E c \in Calls :
    /\ calls[c].pc = "returned" /\ calls[c].via = "fallback"
    /\ calls[c].prior = None
    /\ \E i \in 1..Len(calls[c].result) :
         /\ calls[c].result[i].target = FirstTarget(calls[c].base)
         /\ calls[c].result[i].rate = Num(2)
    /\ convert(MaxAmount, calls[c].base, FirstTarget(calls[c].base))
         = Num(2 * MaxAmount)

\* C29: getLatestUpdateDate(base) returns null when the map has no set for
\* the base or an empty one; otherwise, the entries having dates, it returns
\* the date of an entry that no entry's date is later than.
C29_LatestUpdateDate ==
  \A b \in Currencies :
    LET r == getLatestUpdateDate(b)
        rates == Entries(b)
    IN /\ (cache[b] = None \/ rates = <<>>) <=> r.null
       /\ (rates # <<>> /\ \A i \in 1..Len(rates) : rates[i].date # None) =>
            /\ \E i \in 1..Len(rates) : rates[i].date = r.date
            /\ \A i \in 1..Len(rates) : rates[i].date[1] <= r.date[1]

\* the map holds a set whose second entry has the later date, and that date
\* is returned
C29_Witness ==
  \E b \in Bases :
    /\ Len(Entries(b)) = 2
    /\ Entries(b)[1].date = PublishedDate
    /\ Entries(b)[2].date = NextPublishedDate
    /\ getLatestUpdateDate(b) = [null |-> FALSE, date |-> NextPublishedDate]

\* C30: whenever the page is mounted, no fetchRates continuation is about to
\* run, the selected currencies differ and the map has no rate for the
\* selected pair, the convertedAmount signal is null.
C30_UnknownRateShowsPending ==
  (/\ app.phase = "mounted"
   /\ \A c \in Calls : calls[c].pc # "returned"
   /\ app.from # app.to
   /\ convert(app.amount, app.from, app.to) = None) =>
    app.convertedAmount = None

\* C31: a request the worker has served for a path other than /api/health
\* that carried no key equal to the configured one was answered 401, and no
\* route handler ran.
C31_KeyRequired ==
  (/\ apiWorker.request.method # ""
   /\ apiWorker.request.path # "/api/health"
   /\ ~isAuthenticated(apiWorker.request, apiWorker.env)) =>
    apiWorker.status = 401 /\ apiWorker.route = "none"

\* C32: for every currency, the script sends at most MAX_RETRIES (3) requests
\* to the rate service in a run.
C32_AtMostThreeRequests ==
  \A i \in 1..Len(ScriptCurrencies) : script.sent[i] <= MAX_RETRIES

\* C39: when a run that is not forced skips, the rows the table holds for
\* today are the rows of an upload that ran to its end.
C39_SkipMeansCompleteUpload ==
  script.pc = "skipped" =>
    /\ script.completed # {}
    /\ RowsOn(script.date) = {r \in script.completed : r.date = Num(script.date)}

\* C33: when fetchRates(base) has returned what the map held, neither source
\* having given rates returned as fresh, the map holds for base what it held
\* when the call began.
C33_FailedFetchLeavesStore ==
  \A c \in Calls :
    (calls[c].pc = "returned" /\ calls[c].via = "cache") =>
      cache[calls[c].base] = calls[c].prior

\* C36: no step of fetchRates(base) replaces a set of the map that holds
\* entries by an empty one.
C36_NeverReplacedByEmpty ==
  [][\A c \in Calls :
       (/\ calls[c].pc \in {"primary", "fallback"}
        /\ calls'[c] # calls[c]
        /\ cache[calls[c].base] # None
        /\ cache[calls[c].base][1] # <<>>) =>
         /\ cache'[calls[c].base] # None
         /\ cache'[calls[c].base][1] # <<>>]_vars

\* C37: no step of fetchRates(base) changes what the map, or the stored
\* snapshot, holds for another base.
C37_OtherBasesUntouched ==
  [][\A c \in Calls :
       (calls[c].pc \in {"primary", "fallback"} /\ calls'[c] # calls[c]) =>
         \A b \in Currencies \ {calls[c].base} :
           /\ cache'[b] = cache[b]
           /\ loadFromLocalStorage(localStorage')[b]
                = loadFromLocalStorage(localStorage)[b]]_vars

\* C34: in every reachable state of the service worker, every entry of the
\* static cache and of the API cache is a response with a 2xx status
C34_OnlySuccessesStored ==
  \A n \in {CACHE_NAME, CURRENCY_API_CACHE} :
    swCaches[n] # None =>
      \A u \in Urls :
        swCaches[n][1][u] # None => ResponseOk(swCaches[n][1][u][1])

\* C35: with requests going through the service worker, a step of
\* fetchRates that consumes the answer to a request whose network fetch
\* failed leaves the fetch metadata as it was
C35_OfflineKeepsMetadata ==
  [][\A c \in Calls, h \in Handlers :
       (/\ calls[c].pc \in {"primary", "fallback"}
        /\ calls'[c] # calls[c]
        /\ swFetch[h].pc = "done"
        /\ swFetch[h].network = "failed") =>
         localStorage'[METADATA_KEY] = localStorage[METADATA_KEY]]_vars

\* C38: an attempt of the page that ends with the metadata still saying
\* never fetched is followed at once by another fetchRates; and when the
\* page starts with never-fetched metadata and from some point on every
\* attempt has a source that answers with rates, then from some point on the
\* map holds rates for the selected base and the metadata says when they
\* were fetched
C38_RetriesUntilFetched ==
  /\ [][\A c \in Calls :
          (/\ app.phase = "mounted"
           /\ calls[c].pc = "returned"
           /\ calls'[c] # calls[c]
           /\ getMetadata.lastFetch = <<>>) =>
            /\ calls'[c].pc = "primary"
            /\ calls'[c].base = app.from]_vars
  /\ (/\ getMetadata.lastFetch = <<>>
      /\ <>[](\A c \in Calls :
                calls[c].pc = "returned" =>
                  "ok" \in {calls[c].primary, calls[c].fallback})) =>
       <>[](cache[app.from] # None /\ getMetadata.lastFetch # <<>>)

====
